---- MODULE Spec2Model ----
(***************************************************************************)
(* Session lifecycle and turn rotation of egokoro-kun (GameManager on top  *)
(* of a shared session store).  One session record lives in the store;     *)
(* every browser owns one GameManager (a coordinator) that reads the       *)
(* record, computes on its private copy and writes the whole record back.  *)
(* Turn timers and the delayed nextTurn callbacks keep the session object  *)
(* they were created with.                                                 *)
(***************************************************************************)
EXTENDS Integers, Sequences, FiniteSets, Bags, TLC

\* ---------------------------------------------------------------- bounds
MaxRoundsSetting == 2
MaxScore == 15
MaxCallbacks == 1
MaxSteps == 4
SmallMaxPlayers == 2
MaxHours == 25
MaxMessages == 101

\* rounds a stored session may count before the model stops a finished
\* game's timers from cycling on
MaxRound == MaxRoundsSetting + 1
\* the value of steps under which handler runs are not counted
Unbounded == 0 - 1

\* ------------------------------------------------------ program constants
DefaultMaxRounds == 2
DefaultCorrectAnswerPoints == 10
DefaultDrawerPoints == 5
DefaultMaxPlayers == 8

MinPlayers == 2

\* one GameManager per browser; a browser that joins gets its own id
Coordinators == {1, 2, 3}
Null == [absent |-> TRUE]
NoPlayer == 0
NoTopic == [displayName |-> "", answerNames |-> <<>>]
None == [op |-> "idle"]
NoPassword == ""

\* ------------------------------------------------------------------ text
\* Strings are sequences of one-character strings.
Str_cat == <<"c", "a", "t">>
Str_neko == <<"n", "e", "k", "o">>

toLowerCaseChar(ch) ==
  CASE ch = "C" -> "c"
    [] ch = "A" -> "a"
    [] ch = "T" -> "t"
    [] ch = "S" -> "s"
    [] OTHER -> ch

toLowerCase(s) == [i \in 1..Len(s) |-> toLowerCaseChar(s[i])]

IsWhiteSpace(ch) == ch = " "

RECURSIVE trimStart(_)
trimStart(s) ==
  IF s # <<>> /\ IsWhiteSpace(Head(s)) THEN trimStart(Tail(s)) ELSE s

RECURSIVE trimEnd(_)
trimEnd(s) ==
  IF s # <<>> /\ IsWhiteSpace(s[Len(s)])
  THEN trimEnd(SubSeq(s, 1, Len(s) - 1))
  ELSE s

trim(s) == trimEnd(trimStart(s))

includes(hay, needle) ==
  \E i \in 0..(Len(hay) - Len(needle)) :
    SubSeq(hay, i + 1, i + Len(needle)) = needle

\* ---------------------------------------------------------------- topics
topicsData ==
  [animals |-> << [displayName |-> "Cat", answerNames |-> <<Str_cat, Str_neko>>] >>,
   music   |-> << >>]

DefaultThemes == {"animals", "music"}

Guesses == { <<" ", "C", "a", "t">>, <<"s", "o">> }

NameOf(i) == <<"Alice", "Bob", "Carol", "Dave", "Eve">>[i]

Names == {NameOf(i) : i \in Coordinators}

\* what a joining player types as password
Passwords == {"pw", "guess"}

\* -------------------------------------------------------------- settings
DefaultSettings ==
  [maxRounds |-> DefaultMaxRounds,
   correctAnswerPoints |-> DefaultCorrectAnswerPoints,
   drawerPoints |-> DefaultDrawerPoints,
   selectedThemes |-> DefaultThemes,
   maxPlayers |-> DefaultMaxPlayers]

SettingsPatches == {[maxRounds |-> r] : r \in 1..MaxRoundsSetting}

VARIABLES
  store,      \* the session record of the store, or Null
  created,    \* ids whose player record was ever created (uuid freshness)
  pending,    \* per coordinator: the operation between its read and its write
  timer,      \* per coordinator: turnTimers entry (the captured session) or Null
  timeouts,   \* per coordinator: the bag of setTimeout calls of startTurnTimer
              \* neither fired nor cleared, each with its captured session
  callbacks,  \* per coordinator: queued continuations, each with its session
  steps,      \* handler runs that changed something so far
  gameState,  \* per client: GameApp.gameState (session: the local view of
              \* the session or Null; isConnected)
  sessionUnsubscribe,  \* per client: GameApp.sessionUnsubscribe is set
  listeners,  \* per client: onValue listeners on the session not yet released
  inbox,      \* per client: change notifications on their way to the listener
  now,        \* Date.now(), in whole hours
  online,     \* the remote store answers (set and get succeed)
  offlineSince,  \* when the remote store last stopped answering
  savedAt,    \* FirebaseSessionData.timestamp of the stored session
  fallback,   \* per client: the localStorage copy of FirebaseSessionManager
              \* ([session, timestamp] or Null)
  lastResult, \* per client: what its last mutating operation reported
  simple,     \* the localStorage entry of SimpleSessionManager
              \* ([session, lastActivity] or Null)
  chatMessages   \* the chat log kept by each store implementation

\* the state of the GameApp around each GameManager
appVars == <<gameState, sessionUnsubscribe, listeners, inbox>>

\* the state of the store managers beside the stored session
storeVars == <<now, online, offlineSince, savedAt, fallback, lastResult, simple,
               chatMessages>>

envVars == <<appVars, storeVars>>

vars == <<store, created, pending, timer, timeouts, callbacks, steps, envVars>>

\* GameManagers driven with no GameApp attached
NoApp ==
  /\ gameState = [c \in Coordinators |-> [session |-> Null, isConnected |-> FALSE]]
  /\ sessionUnsubscribe = [c \in Coordinators |-> FALSE]
  /\ listeners = [c \in Coordinators |-> 0]
  /\ inbox = [c \in Coordinators |-> <<>>]

\* the remote store answering, nothing kept locally, no time passing
StoreIdle ==
  /\ now = 0
  /\ online = TRUE
  /\ offlineSince = 0
  /\ savedAt = 0
  /\ fallback = [c \in Coordinators |-> Null]
  /\ lastResult = [c \in Coordinators |-> None]
  /\ simple = Null
  /\ chatMessages = [firebase |-> <<>>, simple |-> <<>>]

EnvInit == NoApp /\ StoreIdle

Tick ==
  IF steps = Unbounded
  THEN UNCHANGED steps
  ELSE steps < MaxSteps /\ steps' = steps + 1

\* ------------------------------------------------------- session helpers
Ids(s) == {s.players[i].id : i \in 1..Len(s.players)}

FindIndex(s, id) ==
  IF id \in Ids(s)
  THEN CHOOSE i \in 1..Len(s.players) :
         /\ s.players[i].id = id
         /\ \A j \in 1..(i - 1) : s.players[j].id # id
  ELSE 0

Find(s, id) == s.players[FindIndex(s, id)]

RemoveAt(seq, i) == SubSeq(seq, 1, i - 1) \o SubSeq(seq, i + 1, Len(seq))

\* ------------------------------------------------------------ the store
\* a store that kept, player by player, the higher of the stored score and
\* the written one
saveSessionMerged(s) ==
  store' = IF store = Null
           THEN s
           ELSE [s EXCEPT !.players =
                   [i \in 1..Len(s.players) |->
                      IF FindIndex(store, s.players[i].id) = 0
                      THEN s.players[i]
                      ELSE IF Find(store, s.players[i].id).score > s.players[i].score
                           THEN [s.players[i] EXCEPT
                                   !.score = Find(store, s.players[i].id).score]
                           ELSE s.players[i]]]

saveSession(s) == store' = s

deleteSession == store' = Null

\* ---------------------------------------------------------- createSession
NewSession(hostId, hostName, password) ==
  [password |-> password,
   players |-> << [id |-> hostId, name |-> hostName, score |-> 0,
                   isReady |-> FALSE, isHost |-> TRUE] >>,
   gameState |-> "waiting",
   settings |-> DefaultSettings,
   round |-> 1,
   turn |-> 1,
   currentDrawer |-> NoPlayer,
   currentTopic |-> NoTopic,
   usedDrawers |-> {}]

\* ------------------------------------------------------------ joinSession
\* a join that looks at the name before the password
joinSessionErrorNameFirst(s, playerName, password) ==
  IF s = Null THEN "notFound"
  ELSE IF \E i \in 1..Len(s.players) : s.players[i].name = playerName
       THEN "nameTaken"
  ELSE IF s.password # NoPassword /\ s.password # password THEN "wrongPassword"
  ELSE IF s.gameState = "playing" THEN "gameInProgress"
  ELSE IF Len(s.players) >= s.settings.maxPlayers THEN "sessionFull"
  ELSE "ok"

\* a join that never looks at the names in the roster
joinSessionErrorNoNameCheck(s, playerName, password) ==
  IF s = Null THEN "notFound"
  ELSE IF s.password # NoPassword /\ s.password # password THEN "wrongPassword"
  ELSE IF s.gameState = "playing" THEN "gameInProgress"
  ELSE IF Len(s.players) >= s.settings.maxPlayers THEN "sessionFull"
  ELSE "ok"

joinSessionError(s, playerName, password) ==
  IF s = Null THEN "notFound"
  ELSE IF s.password # NoPassword /\ s.password # password THEN "wrongPassword"
  ELSE IF s.gameState = "playing" THEN "gameInProgress"
  ELSE IF Len(s.players) >= s.settings.maxPlayers THEN "sessionFull"
  ELSE IF \E i \in 1..Len(s.players) : s.players[i].name = playerName
       THEN "nameTaken"
  ELSE "ok"

joinSessionDo(c, s, playerName, password) ==
  LET err == joinSessionError(s, playerName, password)
      newPlayer == [id |-> c, name |-> playerName, score |-> 0,
                    isReady |-> FALSE, isHost |-> FALSE]
  IN IF err # "ok"
     THEN UNCHANGED <<store, created, timer, timeouts, callbacks, steps>>
     ELSE /\ Tick
          /\ saveSession([s EXCEPT !.players = Append(@, newPlayer)])
          /\ created' = created \cup {c}
          /\ UNCHANGED <<timer, timeouts, callbacks>>

\* ----------------------------------------------------------- leaveSession
\* a leave that hands the host role to nobody
leaveSessionResultNoTransfer(s, playerId) ==
  [s EXCEPT !.players = RemoveAt(s.players, FindIndex(s, playerId))]

\* a leave that hands the host role to the last remaining player
leaveSessionResultLastHost(s, playerId) ==
  LET i == FindIndex(s, playerId)
      player == s.players[i]
      rest == RemoveAt(s.players, i)
  IN IF player.isHost /\ Len(rest) > 0
     THEN [s EXCEPT !.players = [rest EXCEPT ![Len(rest)].isHost = TRUE]]
     ELSE [s EXCEPT !.players = rest]

leaveSessionResult(s, playerId) ==
  LET i == FindIndex(s, playerId)
      player == s.players[i]
      rest == RemoveAt(s.players, i)
  IN IF player.isHost /\ Len(rest) > 0
     THEN [s EXCEPT !.players = [rest EXCEPT ![1].isHost = TRUE]]
     ELSE [s EXCEPT !.players = rest]

leaveSessionFails(s, playerId) ==
  IF s = Null THEN TRUE ELSE FindIndex(s, playerId) = 0

\* a leave without the findIndex test: splice(-1, 1) drops the last player
leaveSessionDoSplice(c, s) ==
  IF s = Null
  THEN UNCHANGED <<store, created, timer, timeouts, callbacks, steps>>
  ELSE /\ Tick
       /\ IF Len(s.players) = 1
          THEN deleteSession
          ELSE IF FindIndex(s, c) = 0
               THEN saveSession([s EXCEPT !.players = RemoveAt(@, Len(@))])
               ELSE saveSession(leaveSessionResult(s, c))
       /\ UNCHANGED <<created, timer, timeouts, callbacks>>

\* a leave that saves the session whatever is left of the roster
leaveSessionDoAlwaysSaves(c, s) ==
  IF leaveSessionFails(s, c)
  THEN UNCHANGED <<store, created, timer, timeouts, callbacks, steps>>
  ELSE /\ Tick
       /\ saveSession(leaveSessionResult(s, c))
       /\ UNCHANGED <<created, timer, timeouts, callbacks>>

leaveSessionDo(c, s) ==
  IF leaveSessionFails(s, c)
  THEN UNCHANGED <<store, created, timer, timeouts, callbacks, steps>>
  ELSE /\ Tick
       /\ IF Len(s.players) = 1
          THEN deleteSession
          ELSE saveSession(leaveSessionResult(s, c))
       /\ UNCHANGED <<created, timer, timeouts, callbacks>>

\* ------------------------------------------------------------ toggleReady
toggleReadyFails(s, playerId) ==
  IF s = Null THEN TRUE ELSE FindIndex(s, playerId) = 0

toggleReadyDo(c, s) ==
  IF toggleReadyFails(s, c)
  THEN UNCHANGED <<store, created, timer, timeouts, callbacks, steps>>
  ELSE /\ Tick
       /\ saveSession([s EXCEPT !.players[FindIndex(s, c)].isReady = ~@])
       /\ UNCHANGED <<created, timer, timeouts, callbacks>>

\* ------------------------------------------------------------ turn timers
\* turnTimers after clearTurnTimer, after startTurnTimer
clearTurnTimer(tm, c) == [tm EXCEPT ![c] = Null]

startTurnTimer(tm, c, s) == [clearTurnTimer(tm, c) EXCEPT ![c] = s]

\* the pending timeouts after clearTimeout(h), after setTimeout
clearTimeout(ts, c, h) ==
  IF h = Null THEN ts ELSE [ts EXCEPT ![c] = @ (-) SetToBag({h})]

setTimeout(ts, c, s) == [ts EXCEPT ![c] = @ (+) SetToBag({s})]

\* the pending timeouts after clearTurnTimer: the entry of turnTimers, if
\* any, is cleared
clearTurnTimerTimeouts(ts, tm, c) == clearTimeout(ts, c, tm[c])

\* a startTurnTimer that registers the new timeout without clearing the
\* registered one
startTurnTimerTimeoutsNoClear(ts, tm, c, s) == setTimeout(ts, c, s)

\* the pending timeouts after startTurnTimer
startTurnTimerTimeouts(ts, tm, c, s) ==
  setTimeout(clearTurnTimerTimeouts(ts, tm, c), c, s)

\* ---------------------------------------------------------------- endGame
\* an endGame that leaves the players ready
endGameSessionKeepsReady(s) == [s EXCEPT !.gameState = "finished"]

endGameSession(s) ==
  [s EXCEPT !.gameState = "finished",
            !.players = [i \in 1..Len(s.players) |->
                           [s.players[i] EXCEPT !.isReady = FALSE]]]

\* ------------------------------------------------------- selectNextDrawer
\* The outcomes of one call: a drawer picked, the game ended (endGame was
\* called), or a TypeError thrown when availableDrawers is empty and the
\* game goes on (availableDrawers[0] is undefined).
availableDrawers(s) == Ids(s) \ s.usedDrawers

\* a selection that ends the game one round late
selectNextDrawerLate(s) ==
  LET bumped == [s EXCEPT !.usedDrawers = {}, !.round = @ + 1]
  IN IF availableDrawers(s) = {}
     THEN IF bumped.round > bumped.settings.maxRounds + 1
          THEN {[kind |-> "ended", session |-> endGameSession(bumped)]}
          ELSE {[kind |-> "throw", session |-> bumped]}
     ELSE {[kind |-> "picked",
            session |-> [s EXCEPT !.currentDrawer = d,
                                  !.usedDrawers = @ \cup {d}]]
             : d \in availableDrawers(s)}

selectNextDrawer(s) ==
  LET bumped == [s EXCEPT !.usedDrawers = {}, !.round = @ + 1]
  IN IF availableDrawers(s) = {}
     THEN IF bumped.round > bumped.settings.maxRounds
          THEN {[kind |-> "ended", session |-> endGameSession(bumped)]}
          ELSE {[kind |-> "throw", session |-> bumped]}
     ELSE {[kind |-> "picked",
            session |-> [s EXCEPT !.currentDrawer = d,
                                  !.usedDrawers = @ \cup {d}]]
             : d \in availableDrawers(s)}

\* ------------------------------------------------------ selectRandomTopic
Range(f) == {f[i] : i \in DOMAIN f}

availableTopics(s) ==
  UNION {Range(topicsData[th]) : th \in s.settings.selectedThemes \cap DOMAIN topicsData}

selectRandomTopic(s) ==
  IF availableTopics(s) = {}
  THEN {s}
  ELSE {[s EXCEPT !.currentTopic = tp] : tp \in availableTopics(s)}

\* -------------------------------------------------------------- startGame
\* a startGame that does not look at readiness
startGameAllowedNoReadyCheck(s, hostId) ==
  IF s = Null
  THEN FALSE
  ELSE /\ FindIndex(s, hostId) # 0
       /\ Find(s, hostId).isHost
       /\ Len(s.players) >= MinPlayers

startGameAllowed(s, hostId) ==
  IF s = Null
  THEN FALSE
  ELSE /\ FindIndex(s, hostId) # 0
       /\ Find(s, hostId).isHost
       /\ \A i \in 1..Len(s.players) : s.players[i].isReady
       /\ Len(s.players) >= MinPlayers

startGameReset(s) ==
  [s EXCEPT !.gameState = "playing", !.round = 1, !.turn = 1, !.usedDrawers = {}]

startGameDo(c, s) ==
  IF ~startGameAllowed(s, c)
  THEN UNCHANGED <<store, created, timer, timeouts, callbacks, steps>>
  ELSE \E o \in selectNextDrawer(startGameReset(s)) :
         \E s2 \in selectRandomTopic(o.session) :
           /\ o.kind = "picked"
           /\ Tick
           /\ saveSession(s2)
           /\ timer' = startTurnTimer(timer, c, s2)
           /\ timeouts' = startTurnTimerTimeouts(timeouts, timer, c, s2)
           /\ UNCHANGED <<created, callbacks>>

\* ------------------------------------------------------------ checkAnswer
isCorrectAnswer(topic, answer) ==
  LET normalizedAnswer == trim(toLowerCase(answer))
  IN \E k \in 1..Len(topic.answerNames) :
       \/ includes(toLowerCase(topic.answerNames[k]), normalizedAnswer)
       \/ includes(normalizedAnswer, toLowerCase(topic.answerNames[k]))

AddScore(s, id, points) ==
  IF FindIndex(s, id) = 0
  THEN s
  ELSE [s EXCEPT !.players[FindIndex(s, id)].score = @ + points]

\* an award that forgets the drawer
awardPointsGuesserOnly(s, playerId) ==
  AddScore(s, playerId, s.settings.correctAnswerPoints)

awardPoints(s, playerId) ==
  AddScore(AddScore(s, playerId, s.settings.correctAnswerPoints),
           s.currentDrawer, s.settings.drawerPoints)

checkAnswerRejected(s) ==
  IF s = Null THEN TRUE ELSE s.currentTopic = NoTopic

checkAnswerIsCorrect(s, answer) ==
  IF checkAnswerRejected(s) THEN FALSE ELSE isCorrectAnswer(s.currentTopic, answer)

checkAnswerDo(c, s, answer) ==
  IF ~checkAnswerIsCorrect(s, answer)
  THEN UNCHANGED <<store, created, timer, timeouts, callbacks, steps>>
  ELSE LET scored == awardPoints(s, c)
       IN /\ Tick
          /\ timer' = clearTurnTimer(timer, c)
          /\ timeouts' = clearTurnTimerTimeouts(timeouts, timer, c)
          /\ saveSession(scored)
          /\ callbacks' = [callbacks EXCEPT ![c] =
                             Append(@, [kind |-> "nextTurn", session |-> scored])]
          /\ UNCHANGED created

\* Scores grow without bound; a guess is submitted only while every score of
\* the session read leaves room for one more award.
ScoresBelowCap(s) ==
  IF s = Null
  THEN TRUE
  ELSE \A i \in 1..Len(s.players) :
         s.players[i].score + s.settings.correctAnswerPoints
           + s.settings.drawerPoints <= MaxScore

\* --------------------------------------------------------------- nextTurn
\* nextTurn(session) on coordinator c; cbs are the coordinator's callbacks
\* and ts the pending timeouts once the trigger is consumed.
nextTurn(c, s, cbs, ts) ==
  \E o \in selectNextDrawer(s) :
    /\ o.session.round <= MaxRound
    /\ Tick
    /\ CASE o.kind = "picked" ->
              \E s2 \in selectRandomTopic(o.session) :
                /\ saveSession(s2)
                /\ timer' = startTurnTimer(clearTurnTimer(timer, c), c, s2)
                /\ timeouts' = startTurnTimerTimeouts(
                                  clearTurnTimerTimeouts(ts, timer, c),
                                  clearTurnTimer(timer, c), c, s2)
                /\ callbacks' = cbs
         [] o.kind = "ended" ->
              /\ saveSession(o.session)
              /\ timer' = clearTurnTimer(timer, c)
              /\ timeouts' = clearTurnTimerTimeouts(ts, timer, c)
              /\ callbacks' = [cbs EXCEPT ![c] =
                                 <<[kind |-> "afterEndGame", session |-> o.session]>> \o @]
         [] o.kind = "throw" ->
              /\ timer' = clearTurnTimer(timer, c)
              /\ timeouts' = clearTurnTimerTimeouts(ts, timer, c)
              /\ callbacks' = cbs
              /\ UNCHANGED store
    /\ UNCHANGED <<created, pending>>

\* setTimeout(() => this.nextTurn(session), 2000) of checkAnswer
nextTurnDelayed(c) ==
  /\ callbacks[c] # <<>>
  /\ Head(callbacks[c]).kind = "nextTurn"
  /\ nextTurn(c, Head(callbacks[c]).session, [callbacks EXCEPT ![c] = Tail(@)],
              timeouts)
  /\ UNCHANGED envVars

\* the rest of nextTurn once selectNextDrawer returned from endGame
nextTurnAfterEndGame(c) ==
  /\ callbacks[c] # <<>>
  /\ Head(callbacks[c]).kind = "afterEndGame"
  /\ \E s2 \in selectRandomTopic(Head(callbacks[c]).session) :
       /\ saveSession(s2)
       /\ timer' = startTurnTimer(timer, c, s2)
       /\ timeouts' = startTurnTimerTimeouts(timeouts, timer, c, s2)
  /\ callbacks' = [callbacks EXCEPT ![c] = Tail(@)]
  /\ Tick
  /\ UNCHANGED <<created, pending>>
  /\ UNCHANGED envVars

\* a timeout of startTurnTimer fires: it is pending no more, and its
\* callback runs nextTurn on the session it captured
turnTimeout(c) ==
  \E s \in BagToSet(timeouts[c]) :
    nextTurn(c, s, callbacks, [timeouts EXCEPT ![c] = @ (-) SetToBag({s})])
  /\ UNCHANGED envVars

\* --------------------------------------------------------- updateSettings
assignSettings(settings, patch) ==
  [f \in DOMAIN settings |-> IF f \in DOMAIN patch THEN patch[f] ELSE settings[f]]

updateSettingsAllowed(s, playerId) ==
  IF s = Null
  THEN FALSE
  ELSE FindIndex(s, playerId) # 0 /\ Find(s, playerId).isHost

updateSettingsDo(c, s, patch) ==
  IF ~updateSettingsAllowed(s, c)
  THEN UNCHANGED <<store, created, timer, timeouts, callbacks, steps>>
  ELSE /\ Tick
       /\ saveSession([s EXCEPT !.settings = assignSettings(@, patch)])
       /\ UNCHANGED <<created, timer, timeouts, callbacks>>

\* ------------------------------------------------- handlers run undisturbed
\* Each handler reads the store and writes it back with no other client's
\* write in between.
joinSession(c, playerName, password) ==
  /\ c \notin created
  /\ joinSessionDo(c, store, playerName, password)
  /\ UNCHANGED pending
  /\ UNCHANGED envVars

leaveSession(c) == leaveSessionDo(c, store) /\ UNCHANGED pending
  /\ UNCHANGED envVars

toggleReady(c) == toggleReadyDo(c, store) /\ UNCHANGED pending
  /\ UNCHANGED envVars

startGame(c) == startGameDo(c, store) /\ UNCHANGED pending
  /\ UNCHANGED envVars

checkAnswer(c, answer) ==
  /\ ScoresBelowCap(store)
  /\ Len(callbacks[c]) < MaxCallbacks
  /\ checkAnswerDo(c, store, answer)
  /\ UNCHANGED pending
  /\ UNCHANGED envVars

updateSettings(c, patch) == updateSettingsDo(c, store, patch) /\ UNCHANGED pending
  /\ UNCHANGED envVars

\* A lobby the program reaches by createSession, joinSession, toggleReady
\* and updateSettings: players 1..n joined in this order, all ready or none
\* ready, maxRounds as the host last set it.
Lobby(n, ready, rounds) ==
  [NewSession(1, NameOf(1), NoPassword) EXCEPT
     !.players = [i \in 1..n |->
                    [id |-> i, name |-> NameOf(i), score |-> 0,
                     isReady |-> ready, isHost |-> (i = 1)]],
     !.settings = assignSettings(@, [maxRounds |-> rounds])]

Lobbies(sizes) ==
  {[session |-> Lobby(n, ready, rounds), ids |-> 1..n] :
     n \in sizes, ready \in BOOLEAN, rounds \in 1..MaxRoundsSetting}

Init ==
  /\ \E l \in Lobbies(1..Cardinality(Coordinators)) :
       /\ store = l.session
       /\ created = l.ids
  /\ pending = [c \in Coordinators |-> None]
  /\ timer = [c \in Coordinators |-> Null]
  /\ timeouts = [c \in Coordinators |-> EmptyBag]
  /\ callbacks = [c \in Coordinators |-> <<>>]
  /\ steps = 0
  /\ EnvInit

Next ==
  \/ \E c \in Coordinators, n \in Names, pw \in Passwords : joinSession(c, n, pw)
  \/ \E c \in Coordinators : leaveSession(c)
  \/ \E c \in Coordinators : toggleReady(c)
  \/ \E c \in Coordinators : startGame(c)
  \/ \E c \in Coordinators, a \in Guesses : checkAnswer(c, a)
  \/ \E c \in Coordinators : nextTurnDelayed(c)
  \/ \E c \in Coordinators : nextTurnAfterEndGame(c)
  \/ \E c \in Coordinators : turnTimeout(c)
  \/ \E c \in Coordinators, p \in SettingsPatches : updateSettings(c, p)

Spec == Init /\ [][Next]_vars

\* ------------------------------------- checkAnswer, read and write apart
\* await getSession(...) and await saveSession(...) of checkAnswer are two
\* steps: other clients' handlers run between them.
checkAnswerRead(c, answer) ==
  /\ pending[c] = None
  /\ ScoresBelowCap(store)
  /\ Len(callbacks[c]) < MaxCallbacks
  /\ pending' = [pending EXCEPT ![c] =
                   [op |-> "checkAnswer", arg |-> answer, snap |-> store]]
  /\ Tick
  /\ UNCHANGED <<store, created, timer, timeouts, callbacks>>
  /\ UNCHANGED envVars

checkAnswerWrite(c) ==
  /\ pending[c].op = "checkAnswer"
  /\ checkAnswerDo(c, pending[c].snap, pending[c].arg)
  /\ pending' = [pending EXCEPT ![c] = None]
  /\ UNCHANGED envVars

ReadyLobbies(sizes) ==
  {l \in Lobbies(sizes) :
     \A i \in 1..Len(l.session.players) : l.session.players[i].isReady}

\* The games the host (player 1) has just started from a ready lobby: the
\* session startGame stored, and the host's turn timer holding it.
StartedFrom(l) ==
  UNION {{[session |-> s2, ids |-> l.ids] : s2 \in selectRandomTopic(o.session)} :
           o \in selectNextDrawer(startGameReset(l.session))}

StartedGames(sizes) == UNION {StartedFrom(l) : l \in ReadyLobbies(sizes)}

InitRace ==
  /\ \E g \in StartedGames(MinPlayers..Cardinality(Coordinators)) :
       /\ store = g.session
       /\ created = g.ids
       /\ timer = [c \in Coordinators |-> IF c = 1 THEN g.session ELSE Null]
       /\ timeouts = [c \in Coordinators |->
                        IF c = 1 THEN SetToBag({g.session}) ELSE EmptyBag]
  /\ pending = [c \in Coordinators |-> None]
  /\ callbacks = [c \in Coordinators |-> <<>>]
  /\ steps = 0
  /\ EnvInit

NextRace ==
  \/ \E c \in Coordinators : startGame(c)
  \/ \E c \in Coordinators, a \in Guesses : checkAnswerRead(c, a)
  \/ \E c \in Coordinators : checkAnswerWrite(c)
  \/ \E c \in Coordinators : nextTurnDelayed(c)
  \/ \E c \in Coordinators : nextTurnAfterEndGame(c)
  \/ \E c \in Coordinators : turnTimeout(c)

SpecRace == InitRace /\ [][NextRace]_vars

\* ------------------------------------------------ one game, played to the end
\* A roster of MinPlayers players that does not change, settings that stay
\* as they are; the host starts the game once. Timers and queued
\* continuations fire eventually (the event loop runs them); the players
\* answer in the chat when they like.
startGameOnce(c) ==
  /\ store # Null
  /\ store.gameState = "waiting"
  /\ startGame(c)

\* addChatMessage hands a message to checkAnswer when its sender is a player
\* of the roster other than the drawer and the game is playing.
answerByChat(c, answer) ==
  /\ IF store = Null
     THEN FALSE
     ELSE /\ c \in Ids(store)
          /\ store.gameState = "playing"
          /\ store.currentDrawer # c
  /\ checkAnswer(c, answer)

InitLive ==
  /\ \E l \in ReadyLobbies(MinPlayers..MinPlayers) :
       /\ store = l.session
       /\ created = l.ids
  /\ pending = [c \in Coordinators |-> None]
  /\ timer = [c \in Coordinators |-> Null]
  /\ timeouts = [c \in Coordinators |-> EmptyBag]
  /\ callbacks = [c \in Coordinators |-> <<>>]
  /\ steps = Unbounded
  /\ EnvInit

NextLive ==
  \/ \E c \in Coordinators : startGameOnce(c)
  \/ \E c \in Coordinators, a \in Guesses : answerByChat(c, a)
  \/ \E c \in Coordinators : nextTurnDelayed(c)
  \/ \E c \in Coordinators : nextTurnAfterEndGame(c)
  \/ \E c \in Coordinators : turnTimeout(c)

SpecLive ==
  /\ InitLive
  /\ [][NextLive]_vars
  /\ \A c \in Coordinators :
       /\ WF_vars(turnTimeout(c))
       /\ WF_vars(nextTurnDelayed(c))
       /\ WF_vars(nextTurnAfterEndGame(c))

\* ---------------------------------------------- the lobby, clients racing
\* Sessions with and without a password, with maxPlayers as created or
\* lowered by the host; joinSession and leaveSession also run with another
\* client's handler between their getSession and their saveSession.
LobbyWith(l, password, maxPlayers) ==
  [session |-> [l.session EXCEPT
                  !.password = password,
                  !.settings = assignSettings(@, [maxPlayers |-> maxPlayers])],
   ids |-> l.ids]

joinSessionRead(c, playerName, password) ==
  /\ c \notin created
  /\ pending[c] = None
  /\ pending' = [pending EXCEPT ![c] =
                   [op |-> "joinSession", arg |-> <<playerName, password>>,
                    snap |-> store]]
  /\ Tick
  /\ UNCHANGED <<store, created, timer, timeouts, callbacks>>
  /\ UNCHANGED envVars

joinSessionWrite(c) ==
  /\ pending[c].op = "joinSession"
  /\ joinSessionDo(c, pending[c].snap, pending[c].arg[1], pending[c].arg[2])
  /\ pending' = [pending EXCEPT ![c] = None]
  /\ UNCHANGED envVars

leaveSessionRead(c) ==
  /\ pending[c] = None
  /\ pending' = [pending EXCEPT ![c] =
                   [op |-> "leaveSession", arg |-> <<>>, snap |-> store]]
  /\ Tick
  /\ UNCHANGED <<store, created, timer, timeouts, callbacks>>
  /\ UNCHANGED envVars

leaveSessionWrite(c) ==
  /\ pending[c].op = "leaveSession"
  /\ leaveSessionDo(c, pending[c].snap)
  /\ pending' = [pending EXCEPT ![c] = None]
  /\ UNCHANGED envVars

DefaultLobbies(sizes) ==
  {l \in Lobbies(sizes) : l.session.settings.maxRounds = DefaultMaxRounds}

InitLobby ==
  /\ \E l \in DefaultLobbies(1..Cardinality(Coordinators)),
        pw \in {NoPassword, "pw"},
        mp \in {SmallMaxPlayers, DefaultMaxPlayers} :
       /\ store = LobbyWith(l, pw, mp).session
       /\ created = l.ids
  /\ pending = [c \in Coordinators |-> None]
  /\ timer = [c \in Coordinators |-> Null]
  /\ timeouts = [c \in Coordinators |-> EmptyBag]
  /\ callbacks = [c \in Coordinators |-> <<>>]
  /\ steps = 0
  /\ EnvInit

NextLobby ==
  \/ \E c \in Coordinators, n \in Names, pw \in Passwords : joinSession(c, n, pw)
  \/ \E c \in Coordinators, n \in Names, pw \in Passwords : joinSessionRead(c, n, pw)
  \/ \E c \in Coordinators : joinSessionWrite(c)
  \/ \E c \in Coordinators : leaveSessionRead(c)
  \/ \E c \in Coordinators : leaveSessionWrite(c)
  \/ \E c \in Coordinators : toggleReady(c)
  \/ \E c \in Coordinators : startGame(c)
  \/ \E c \in Coordinators : turnTimeout(c)

SpecLobby == InitLobby /\ [][NextLobby]_vars

\* ------------------------------------------------- a game under way
\* From a game the host has just started: the handlers of play, each run
\* undisturbed.
NextGame ==
  \/ \E c \in Coordinators : startGame(c)
  \/ \E c \in Coordinators : leaveSession(c)
  \/ \E c \in Coordinators : toggleReady(c)
  \/ \E c \in Coordinators, a \in Guesses : checkAnswer(c, a)
  \/ \E c \in Coordinators : nextTurnDelayed(c)
  \/ \E c \in Coordinators : nextTurnAfterEndGame(c)
  \/ \E c \in Coordinators : turnTimeout(c)

SpecGame == InitRace /\ [][NextGame]_vars

\* ------------------------------------------------- matching an answer
\* Accepted answer names a topic of topics.json can carry: plain, hiragana,
\* and one written with a trailing space. A kana is one character, written
\* here by its name: hiragana ne, ko (U+306D, U+3053) and katakana ne, ko
\* (U+30CD, U+30B3); toLowerCase leaves all four as they are.
Str_hiragana == <<"hira_ne", "hira_ko">>
Str_katakana == <<"kata_ne", "kata_ko">>
Str_padded == <<"c", "a", "t", " ">>

MatchTopics ==
  { topicsData.animals[1],
    [displayName |-> "Neko", answerNames |-> <<Str_hiragana>>],
    [displayName |-> "Cat ", answerNames |-> <<Str_padded>>] }

\* Chat texts checkAnswer is called with.
MatchGuesses ==
  Guesses \cup { <<" ">> \o Str_katakana \o <<" ">>, <<"C", "a", "t", "s">> }

\* A game the host has just started, on any of the topics.
InitMatch ==
  /\ \E g \in StartedGames(MinPlayers..MinPlayers), topic \in MatchTopics :
       LET s == [g.session EXCEPT !.currentTopic = topic]
       IN /\ store = s
          /\ created = g.ids
          /\ timer = [c \in Coordinators |-> IF c = 1 THEN s ELSE Null]
          /\ timeouts = [c \in Coordinators |->
                           IF c = 1 THEN SetToBag({s}) ELSE EmptyBag]
  /\ pending = [c \in Coordinators |-> None]
  /\ callbacks = [c \in Coordinators |-> <<>>]
  /\ steps = 0
  /\ EnvInit

NextMatch ==
  \/ \E c \in Coordinators, a \in MatchGuesses : checkAnswer(c, a)
  \/ \E c \in Coordinators : nextTurnDelayed(c)
  \/ \E c \in Coordinators : nextTurnAfterEndGame(c)
  \/ \E c \in Coordinators : turnTimeout(c)

SpecMatch == InitMatch /\ [][NextMatch]_vars

\* ------------------------------------------------- guesses without text
\* Texts that are empty once trimmed, handed to checkAnswer.
BlankGuesses == { <<>>, <<" ">>, <<" ", " ">> }

NextBlank ==
  \/ \E c \in Coordinators, a \in BlankGuesses : checkAnswer(c, a)
  \/ \E c \in Coordinators : nextTurnDelayed(c)
  \/ \E c \in Coordinators : nextTurnAfterEndGame(c)
  \/ \E c \in Coordinators : turnTimeout(c)

SpecBlank == InitMatch /\ [][NextBlank]_vars
\* ------------------------------------------- GameApp, real-time synchronization
\* The clients' listeners are told of a change of the stored session: the
\* inboxes once the store went from before to after.
notify(box, ls, before, after) ==
  [c \in Coordinators |->
     IF ls[c] > 0 /\ after # before THEN Append(box[c], after) ELSE box[c]]

\* a stopRealtimeSync that drops sessionUnsubscribe without calling it
stopRealtimeSyncKeepsListener(ls, un, c) == ls

\* the listeners once stopRealtimeSync has called sessionUnsubscribe, if set
stopRealtimeSync(ls, un, c) ==
  IF un[c] THEN [ls EXCEPT ![c] = @ - 1] ELSE ls

\* a released listener is told nothing more
released(box, ls, c) ==
  [box EXCEPT ![c] = IF ls[c] = 0 THEN <<>> ELSE @]

\* startRealtimeSync: the earlier subscription is released, a new one opened;
\* onValue reports the value stored at that moment first
startRealtimeSync(c, current) ==
  LET stopped == stopRealtimeSync(listeners, sessionUnsubscribe, c)
  IN /\ listeners' = [stopped EXCEPT ![c] = @ + 1]
     /\ sessionUnsubscribe' = [sessionUnsubscribe EXCEPT ![c] = TRUE]
     /\ inbox' = [released(notify(inbox, listeners, store, current), stopped, c)
                    EXCEPT ![c] = Append(@, current)]

\* GameApp.handleJoinSession: joinSession, and on success the result becomes
\* the local view and the synchronization starts
handleJoinSession(c, playerName, password) ==
  /\ c \notin created
  /\ ~gameState[c].isConnected
  /\ joinSessionDo(c, store, playerName, password)
  /\ UNCHANGED pending
  /\ UNCHANGED storeVars
  /\ IF joinSessionError(store, playerName, password) # "ok"
     THEN UNCHANGED appVars
     ELSE /\ gameState' = [gameState EXCEPT
                             ![c] = [session |-> store', isConnected |-> TRUE]]
          /\ startRealtimeSync(c, store')

\* GameApp.toggleReady; handlePlayerReadyChanged takes the session of the
\* playerReadyChanged event as the local view
GameApp_toggleReady(c) ==
  /\ gameState[c].session # Null
  /\ gameState[c].isConnected
  /\ toggleReadyDo(c, store)
  /\ UNCHANGED <<pending, sessionUnsubscribe, listeners, storeVars>>
  /\ gameState' = IF toggleReadyFails(store, c)
                  THEN gameState
                  ELSE [gameState EXCEPT ![c].session = store']
  /\ inbox' = notify(inbox, listeners, store, store')

\* GameApp.leaveSession: GameManager.leaveSession is called and reads the
\* session; without waiting for it the synchronization is stopped and the
\* local state reset
GameApp_leaveSession(c) ==
  /\ gameState[c].session # Null
  /\ gameState[c].isConnected
  /\ pending[c] = None
  /\ pending' = [pending EXCEPT ![c] =
                   [op |-> "leaveSession", arg |-> <<>>, snap |-> store]]
  /\ Tick
  /\ UNCHANGED <<store, created, timer, timeouts, callbacks, storeVars>>
  /\ listeners' = stopRealtimeSync(listeners, sessionUnsubscribe, c)
  /\ sessionUnsubscribe' = [sessionUnsubscribe EXCEPT ![c] = FALSE]
  /\ inbox' = released(inbox, listeners', c)
  /\ gameState' = [gameState EXCEPT
                     ![c] = [session |-> Null, isConnected |-> FALSE]]

\* the rest of GameManager.leaveSession; handlePlayerLeft takes the session
\* of the playerLeft event as the local view
handlePlayerLeft(c) ==
  /\ pending[c].op = "leaveSession"
  /\ leaveSessionDo(c, pending[c].snap)
  /\ pending' = [pending EXCEPT ![c] = None]
  /\ gameState' = IF leaveSessionFails(pending[c].snap, c)
                  THEN gameState
                  ELSE [gameState EXCEPT
                          ![c].session = leaveSessionResult(pending[c].snap, c)]
  /\ inbox' = notify(inbox, listeners, store, store')
  /\ UNCHANGED <<sessionUnsubscribe, listeners, storeVars>>

\* the callback of subscribeToSession runs on the next notification: a
\* snapshot replaces the local view, null is only logged
sessionUpdate(c) ==
  /\ listeners[c] > 0
  /\ inbox[c] # <<>>
  /\ inbox' = [inbox EXCEPT ![c] = Tail(@)]
  /\ gameState' = IF Head(inbox[c]) = Null
                  THEN gameState
                  ELSE [gameState EXCEPT ![c].session = Head(inbox[c])]
  /\ UNCHANGED <<store, created, pending, timer, timeouts, callbacks, steps,
                 sessionUnsubscribe, listeners, storeVars>>

\* A lobby whose players all run a GameApp: each has joined, holds the stored
\* session as its view and has been told of everything so far.
InitSync ==
  /\ \E l \in DefaultLobbies(1..Cardinality(Coordinators)) :
       /\ store = l.session
       /\ created = l.ids
       /\ gameState = [c \in Coordinators |->
                         IF c \in l.ids
                         THEN [session |-> l.session, isConnected |-> TRUE]
                         ELSE [session |-> Null, isConnected |-> FALSE]]
       /\ sessionUnsubscribe = [c \in Coordinators |-> c \in l.ids]
       /\ listeners = [c \in Coordinators |-> IF c \in l.ids THEN 1 ELSE 0]
  /\ inbox = [c \in Coordinators |-> <<>>]
  /\ pending = [c \in Coordinators |-> None]
  /\ timer = [c \in Coordinators |-> Null]
  /\ timeouts = [c \in Coordinators |-> EmptyBag]
  /\ callbacks = [c \in Coordinators |-> <<>>]
  /\ steps = 0
  /\ StoreIdle

NextSync ==
  \/ \E c \in Coordinators, n \in Names : handleJoinSession(c, n, NoPassword)
  \/ \E c \in Coordinators : GameApp_toggleReady(c)
  \/ \E c \in Coordinators : GameApp_leaveSession(c)
  \/ \E c \in Coordinators : handlePlayerLeft(c)
  \/ \E c \in Coordinators : sessionUpdate(c)

SpecSync == InitSync /\ [][NextSync]_vars

\* ----------------------------------------------------- the store managers
\* FirebaseSessionManager.SESSION_EXPIRY, SimpleSessionManager.SESSION_EXPIRY
\* (24 * 60 * 60 * 1000 ms), in hours
SESSION_EXPIRY == 24

\* time that passes between two calls, in hours
ElapseHours == {1, SESSION_EXPIRY - 1, SESSION_EXPIRY}

\* JSON.stringify leaves out the properties whose value is undefined;
\* a property JSON.parse did not find reads undefined
UndefinedOf(f) ==
  CASE f = "password" -> NoPassword
    [] f = "currentDrawer" -> NoPlayer
    [] f = "currentTopic" -> NoTopic

IsUndefined(s, f) ==
  /\ f \in {"password", "currentDrawer", "currentTopic"}
  /\ s[f] = UndefinedOf(f)

SessionFields == DOMAIN NewSession(1, NameOf(1), NoPassword)

JSON_stringify(s) == [f \in {g \in DOMAIN s : ~IsUndefined(s, g)} |-> s[f]]

JSON_parse(j) ==
  [f \in SessionFields |-> IF f \in DOMAIN j THEN j[f] ELSE UndefinedOf(f)]

\* an isSessionValid that compares the wrong way round
isSessionValidInverted(timestamp) == now - timestamp > SESSION_EXPIRY

isSessionValid(timestamp) == now - timestamp < SESSION_EXPIRY

\* a saveFallback that stores nothing
saveFallbackNoWrite(fb, c, sessionData) == fb

saveFallback(fb, c, sessionData) ==
  [fb EXCEPT ![c] = [session |-> JSON_stringify(sessionData.session),
                     timestamp |-> sessionData.timestamp]]

getFallback(c) ==
  IF fallback[c] = Null
  THEN Null
  ELSE [session |-> JSON_parse(fallback[c].session),
        timestamp |-> fallback[c].timestamp]

deleteFallback(fb, c) == [fb EXCEPT ![c] = Null]

\* what getSession of the fallback branch returns
getFallbackSession(c) ==
  IF getFallback(c) = Null
  THEN Null
  ELSE IF isSessionValid(getFallback(c).timestamp)
       THEN getFallback(c).session
       ELSE Null

\* FirebaseSessionManager.getSession: what it returns to client c
FirebaseGetSessionResult(c) ==
  IF ~online
  THEN getFallbackSession(c)
  ELSE IF store = Null
       THEN Null
       ELSE IF isSessionValid(savedAt) THEN store ELSE Null

\* FirebaseSessionManager.getSessionIds: the session is listed
FirebaseGetSessionIds(c) ==
  IF ~online
  THEN IF fallback[c] = Null THEN FALSE ELSE isSessionValid(fallback[c].timestamp)
  ELSE IF store = Null THEN FALSE ELSE isSessionValid(savedAt)

\* getSession removes a stored session it finds expired
FirebaseGetSessionExpires == online /\ store # Null /\ ~isSessionValid(savedAt)

\* FirebaseSessionManager.saveSession by client c
FirebaseSaveSession(c, s) ==
  IF online
  THEN /\ store' = s
       /\ savedAt' = now
       /\ UNCHANGED fallback
  ELSE /\ fallback' = saveFallback(fallback, c, [session |-> s, timestamp |-> now])
       /\ UNCHANGED <<store, savedAt>>

\* SimpleSessionManager.getSession: what it returns
SimpleGetSessionResult ==
  IF simple = Null
  THEN Null
  ELSE IF now - simple.lastActivity > SESSION_EXPIRY THEN Null ELSE simple.session

\* SimpleSessionManager.getSessionIds: the session is listed
SimpleGetSessionIds ==
  IF simple = Null THEN FALSE ELSE (now - simple.lastActivity) <= SESSION_EXPIRY

gameVars == <<store, created, pending, timer, timeouts, callbacks, steps>>

\* ---- actions
elapse(h) ==
  /\ now + h <= MaxHours
  /\ now' = now + h
  /\ Tick
  /\ UNCHANGED <<store, created, pending, timer, timeouts, callbacks, appVars,
                 online, offlineSince, savedAt, fallback, lastResult, simple,
                 chatMessages>>

goOffline ==
  /\ online
  /\ online' = FALSE
  /\ offlineSince' = now
  /\ UNCHANGED <<gameVars, appVars, now, savedAt, fallback, lastResult, simple,
                 chatMessages>>

goOnline ==
  /\ ~online
  /\ online' = TRUE
  /\ UNCHANGED <<gameVars, appVars, now, offlineSince, savedAt, fallback,
                 lastResult, simple, chatMessages>>

\* what a mutating operation reported, the session it wrote and when
Reported(op, success, s) ==
  [op |-> op, success |-> success, remoteWriteFailed |-> success /\ ~online,
   session |-> s, at |-> now]

\* GameManager.createSession by a client that is authenticated
createSession(c) ==
  /\ c \notin created
  /\ store = Null
  /\ \A d \in Coordinators : fallback[d] = Null
  /\ LET session == NewSession(c, NameOf(c), NoPassword)
     IN /\ FirebaseSaveSession(c, session)
        /\ lastResult' = [lastResult EXCEPT
                            ![c] = Reported("createSession", TRUE, session)]
  /\ created' = created \cup {c}
  /\ Tick
  /\ UNCHANGED <<pending, timer, timeouts, callbacks, appVars, now, online,
                 offlineSince, simple, chatMessages>>

\* GameManager.toggleReady on top of FirebaseSessionManager
FirebaseToggleReady(c) ==
  /\ c \in created
  /\ LET session == FirebaseGetSessionResult(c)
     IN IF toggleReadyFails(session, c)
        THEN /\ lastResult' = [lastResult EXCEPT
                                 ![c] = Reported("toggleReady", FALSE, Null)]
             /\ IF FirebaseGetSessionExpires
                THEN /\ store' = Null
                     /\ fallback' = deleteFallback(fallback, c)
                ELSE UNCHANGED <<store, fallback>>
             /\ UNCHANGED savedAt
        ELSE LET toggled ==
                   [session EXCEPT !.players[FindIndex(session, c)].isReady = ~@]
             IN /\ FirebaseSaveSession(c, toggled)
                /\ lastResult' = [lastResult EXCEPT
                                    ![c] = Reported("toggleReady", TRUE, toggled)]
  /\ Tick
  /\ UNCHANGED <<created, pending, timer, timeouts, callbacks, appVars, now,
                 online, offlineSince, simple, chatMessages>>

\* FirebaseSessionManager.getSession finding the stored session expired
FirebaseGetSession(c) ==
  /\ FirebaseGetSessionExpires
  /\ store' = Null
  /\ fallback' = deleteFallback(fallback, c)
  /\ UNCHANGED <<created, pending, timer, timeouts, callbacks, steps, appVars,
                 now, online, offlineSince, savedAt, lastResult, simple,
                 chatMessages>>

\* FirebaseSessionManager.cleanup
cleanup(c) ==
  /\ fallback[c] # Null
  /\ now - fallback[c].timestamp > SESSION_EXPIRY
  /\ fallback' = deleteFallback(fallback, c)
  /\ UNCHANGED <<gameVars, appVars, now, online, offlineSince, savedAt,
                 lastResult, simple, chatMessages>>

\* The remote store going away and coming back under clients that create a
\* session and toggle ready.
InitOffline ==
  /\ \/ store = Null /\ created = {}
     \/ \E l \in DefaultLobbies(1..MinPlayers) :
          store = l.session /\ created = l.ids
  /\ pending = [c \in Coordinators |-> None]
  /\ timer = [c \in Coordinators |-> Null]
  /\ timeouts = [c \in Coordinators |-> EmptyBag]
  /\ callbacks = [c \in Coordinators |-> <<>>]
  /\ steps = 0
  /\ EnvInit

NextOffline ==
  \/ \E h \in ElapseHours : elapse(h)
  \/ goOffline
  \/ goOnline
  \/ \E c \in Coordinators : createSession(c)
  \/ \E c \in Coordinators : FirebaseToggleReady(c)
  \/ \E c \in Coordinators : FirebaseGetSession(c)
  \/ \E c \in Coordinators : cleanup(c)

SpecOffline == InitOffline /\ [][NextOffline]_vars


\* FirebaseSessionManager.saveSession of the stored session, unchanged
FirebaseResave(c) ==
  /\ online
  /\ store # Null
  /\ FirebaseSaveSession(c, store)
  /\ UNCHANGED <<created, pending, timer, timeouts, callbacks, steps, appVars,
                 now, online, offlineSince, lastResult, simple, chatMessages>>

\* SimpleSessionManager.saveSession
SimpleSaveSession ==
  /\ simple' = [session |-> IF simple = Null
                            THEN NewSession(1, NameOf(1), NoPassword)
                            ELSE simple.session,
                lastActivity |-> now]
  /\ UNCHANGED <<gameVars, appVars, now, online, offlineSince, savedAt,
                 fallback, lastResult, chatMessages>>

\* SimpleSessionManager.getSession finding the session expired
SimpleGetSession ==
  /\ simple # Null
  /\ now - simple.lastActivity > SESSION_EXPIRY
  /\ simple' = Null
  /\ UNCHANGED <<gameVars, appVars, now, online, offlineSince, savedAt,
                 fallback, lastResult, chatMessages>>

\* SimpleSessionManager.cleanup
SimpleCleanup ==
  /\ simple # Null
  /\ now - simple.lastActivity > SESSION_EXPIRY
  /\ simple' = Null
  /\ UNCHANGED <<gameVars, appVars, now, online, offlineSince, savedAt,
                 fallback, lastResult, chatMessages>>

\* One session saved in each store implementation, and time passing.
InitExpiry ==
  /\ \E l \in DefaultLobbies(1..MinPlayers) :
       store = l.session /\ created = l.ids
  /\ pending = [c \in Coordinators |-> None]
  /\ timer = [c \in Coordinators |-> Null]
  /\ timeouts = [c \in Coordinators |-> EmptyBag]
  /\ callbacks = [c \in Coordinators |-> <<>>]
  /\ steps = 0
  /\ NoApp
  /\ now = 0
  /\ online = TRUE
  /\ offlineSince = 0
  /\ savedAt = 0
  /\ fallback = [c \in Coordinators |-> Null]
  /\ lastResult = [c \in Coordinators |-> None]
  /\ simple = [session |-> store, lastActivity |-> 0]
  /\ chatMessages = [firebase |-> <<>>, simple |-> <<>>]

NextExpiry ==
  \/ \E h \in ElapseHours : elapse(h)
  \/ \E c \in Coordinators : FirebaseResave(c)
  \/ \E c \in Coordinators : FirebaseGetSession(c)
  \/ SimpleSaveSession
  \/ SimpleGetSession
  \/ SimpleCleanup

SpecExpiry == InitExpiry /\ [][NextExpiry]_vars


\* SimpleSessionManager.addChatMessage: "Keep only last 100 messages"
ChatCap == 100

\* Array.prototype.slice(-n)
slice(log, n) ==
  IF Len(log) <= n THEN log ELSE SubSeq(log, Len(log) - n + 1, Len(log))

\* the messages are numbered in the order they are appended
NextMessage(log) == IF log = <<>> THEN 1 ELSE log[Len(log)] + 1

\* SimpleSessionManager.addChatMessage on an existing session
SimpleAddChatMessage ==
  /\ NextMessage(chatMessages.simple) <= MaxMessages
  /\ LET pushed == Append(chatMessages.simple, NextMessage(chatMessages.simple))
     IN chatMessages' =
          [chatMessages EXCEPT
             !.simple = IF Len(pushed) > ChatCap THEN slice(pushed, ChatCap)
                        ELSE pushed]
  /\ UNCHANGED <<gameVars, appVars, now, online, offlineSince, savedAt,
                 fallback, lastResult, simple>>

\* FirebaseSessionManager.addChatMessage on an existing session: push() on
\* the remote list, or push on session.chatMessages of the fallback copy
FirebaseAddChatMessage ==
  /\ NextMessage(chatMessages.firebase) <= MaxMessages
  /\ chatMessages' =
       [chatMessages EXCEPT
          !.firebase = Append(@, NextMessage(chatMessages.firebase))]
  /\ UNCHANGED <<gameVars, appVars, now, online, offlineSince, savedAt,
                 fallback, lastResult, simple>>

\* Chat messages appended to a session of each store.
InitChat == InitExpiry

NextChat ==
  \/ SimpleAddChatMessage
  \/ FirebaseAddChatMessage

SpecChat == InitChat /\ [][NextChat]_vars

\* ------------------------- the game on top of SimpleSessionManager
\* GameManager of src/utils/GameManager.ts: the session document of
\* SimpleSessionManager is simple.session together with its chatMessages
\* (chatMessages.simple). A message is numbered by the handler run that
\* sent it.
SimpleSave(s, log) ==
  /\ simple' = [session |-> s, lastActivity |-> now]
  /\ chatMessages' = [chatMessages EXCEPT !.simple = log]

\* GameManager.addChatMessage: checkAnswer for a player other than the
\* drawer while playing, then SimpleSessionManager.addChatMessage. The
\* session object checkAnswer read, chatMessages included, is the one handed
\* to setTimeout(() => this.nextTurn(session), 2000).
Simple_addChatMessage(c, message) ==
  /\ simple # Null
  /\ c \in Ids(simple.session)
  /\ ScoresBelowCap(simple.session)
  /\ LET s == simple.session
         log == chatMessages.simple
         correct == /\ s.gameState = "playing"
                    /\ s.currentDrawer # c
                    /\ checkAnswerIsCorrect(s, message)
         pushed == Append(log, steps + 1)
     IN /\ correct => Len(callbacks[c]) < MaxCallbacks
        /\ SimpleSave(IF correct THEN awardPoints(s, c) ELSE s,
                      IF Len(pushed) > ChatCap THEN slice(pushed, ChatCap)
                      ELSE pushed)
        /\ callbacks' =
             IF correct
             THEN [callbacks EXCEPT ![c] =
                     Append(@, [kind |-> "nextTurn",
                                session |-> awardPoints(s, c),
                                chatMessages |-> log])]
             ELSE callbacks
  /\ Tick
  /\ UNCHANGED <<store, created, pending, timer, timeouts, appVars, now,
                 online, offlineSince, savedAt, fallback, lastResult>>

\* the delayed nextTurn(session) of checkAnswer: saveSession writes the
\* whole session object, chatMessages included
Simple_nextTurn(c) ==
  /\ callbacks[c] # <<>>
  /\ LET cb == Head(callbacks[c])
     IN \E o \in selectNextDrawer(cb.session) :
          /\ o.session.round <= MaxRound
          /\ IF o.kind = "throw"
             THEN UNCHANGED <<simple, chatMessages>>
             ELSE \E s2 \in selectRandomTopic(o.session) :
                    SimpleSave(s2, cb.chatMessages)
  /\ callbacks' = [callbacks EXCEPT ![c] = Tail(@)]
  /\ Tick
  /\ UNCHANGED <<store, created, pending, timer, timeouts, appVars, now,
                 online, offlineSince, savedAt, fallback, lastResult>>

\* A game just started through GameManager.startGame.
InitSimpleGame ==
  /\ \E g \in StartedGames(MinPlayers..Cardinality(Coordinators)) :
       /\ simple = [session |-> g.session, lastActivity |-> 0]
       /\ created = g.ids
  /\ store = Null
  /\ pending = [c \in Coordinators |-> None]
  /\ timer = [c \in Coordinators |-> Null]
  /\ timeouts = [c \in Coordinators |-> EmptyBag]
  /\ callbacks = [c \in Coordinators |-> <<>>]
  /\ steps = 0
  /\ NoApp
  /\ now = 0
  /\ online = TRUE
  /\ offlineSince = 0
  /\ savedAt = 0
  /\ fallback = [c \in Coordinators |-> Null]
  /\ lastResult = [c \in Coordinators |-> None]
  /\ chatMessages = [firebase |-> <<>>, simple |-> <<>>]

NextSimpleGame ==
  \/ \E c \in Coordinators, m \in Guesses : Simple_addChatMessage(c, m)
  \/ \E c \in Coordinators : Simple_nextTurn(c)

SpecSimpleGame == InitSimpleGame /\ [][NextSimpleGame]_vars

\* ------------------------------- addChatMessage, its read and checkAnswer
\* GameManager.addChatMessage awaits getSession, tests gameState and
\* currentDrawer on what it read, and then awaits checkAnswer, which reads
\* the session again: other clients' handlers and timers run in between.
addChatMessageRead(c, message) ==
  /\ pending[c] = None
  /\ IF store = Null THEN FALSE ELSE c \in Ids(store)
  /\ pending' = [pending EXCEPT ![c] =
                   [op |-> "addChatMessage", arg |-> message, snap |-> store]]
  /\ Tick
  /\ UNCHANGED <<store, created, timer, timeouts, callbacks>>
  /\ UNCHANGED envVars

\* the test of addChatMessage on the session it read
addChatMessageJudges(s, playerId) ==
  s.gameState = "playing" /\ s.currentDrawer # playerId

addChatMessageCheck(c) ==
  /\ pending[c].op = "addChatMessage"
  /\ IF addChatMessageJudges(pending[c].snap, c)
     THEN /\ ScoresBelowCap(store)
          /\ Len(callbacks[c]) < MaxCallbacks
          /\ checkAnswerDo(c, store, pending[c].arg)
     ELSE UNCHANGED <<store, created, timer, timeouts, callbacks, steps>>
  /\ pending' = [pending EXCEPT ![c] = None]
  /\ UNCHANGED envVars

NextChatRace ==
  \/ \E c \in Coordinators, m \in Guesses : addChatMessageRead(c, m)
  \/ \E c \in Coordinators : addChatMessageCheck(c)
  \/ \E c \in Coordinators : nextTurnDelayed(c)
  \/ \E c \in Coordinators : nextTurnAfterEndGame(c)
  \/ \E c \in Coordinators : turnTimeout(c)

SpecChatRace == InitRace /\ [][NextChatRace]_vars

\* ================================================================ claims
Playing(s) == IF s = Null THEN FALSE ELSE s.gameState = "playing"

Finished(s) == IF s = Null THEN FALSE ELSE s.gameState = "finished"

\* every player of s has drawn and another round fits into maxRounds
RoundRollsOver(s) ==
  IF s = Null
  THEN FALSE
  ELSE availableDrawers(s) = {} /\ s.round + 1 <= s.settings.maxRounds

\* every player of s has drawn and the next round would exceed maxRounds
RoundsExhausted(s) ==
  IF s = Null
  THEN FALSE
  ELSE availableDrawers(s) = {} /\ s.round + 1 > s.settings.maxRounds

\* the session nextTurn runs on when coordinator c's trigger fires
HeadSession(c) ==
  IF callbacks[c] # <<>> THEN Head(callbacks[c]).session ELSE Null

\* C1: while the stored session is playing and a selected theme has topics,
\* currentDrawer is the id of a player of the roster and currentTopic is set.
C1_DrawerInRosterAndTopicSet ==
  (Playing(store) /\ availableTopics(store) # {}) =>
    /\ store.currentDrawer \in Ids(store)
    /\ store.currentTopic # NoTopic

\* C2: a nextTurn whose drawer selection finds every player in usedDrawers
\* while round + 1 <= maxRounds stores the session with round incremented by
\* one, still playing, a drawer of the roster and usedDrawers = {drawer}.
RolledOver(s, after) ==
  IF after = Null
  THEN FALSE
  ELSE /\ after.round = s.round + 1
       /\ after.gameState = "playing"
       /\ after.currentDrawer \in Ids(after)
       /\ after.usedDrawers = {after.currentDrawer}

C2_RoundRollsOver ==
  [][\A c \in Coordinators :
       /\ (RoundRollsOver(timer[c]) /\ Playing(timer[c]) /\ turnTimeout(c))
            => RolledOver(timer[c], store')
       /\ (RoundRollsOver(HeadSession(c)) /\ Playing(HeadSession(c)) /\ nextTurnDelayed(c))
            => RolledOver(HeadSession(c), store')]_vars

\* C3: with a roster of at least two players that does not change and any
\* maxRounds >= 1, when every turn timer and every queued nextTurn
\* eventually runs, a game that is playing eventually reaches
\* gameState = finished.
C3_EventuallyFinished == Playing(store) ~> Finished(store)

\* C4: a drawer selection that finds every player in usedDrawers while the
\* incremented round exceeds maxRounds stores gameState = finished and keeps
\* the drawer it found.
EndedWithoutDrawer(s, after) ==
  IF after = Null
  THEN FALSE
  ELSE after.gameState = "finished" /\ after.currentDrawer = s.currentDrawer

C4_ExhaustedRoundsFinish ==
  [][\A c \in Coordinators :
       /\ (RoundsExhausted(timer[c]) /\ turnTimeout(c))
            => EndedWithoutDrawer(timer[c], store')
       /\ (RoundsExhausted(HeadSession(c)) /\ nextTurnDelayed(c))
            => EndedWithoutDrawer(HeadSession(c), store')]_vars

\* C4 witness: a game of two players and maxRounds = 1 that a drawer
\* selection has just finished.
C4_Witness ==
  \E c \in Coordinators :
    /\ callbacks[c] # <<>>
    /\ Head(callbacks[c]).kind = "afterEndGame"
    /\ store = Head(callbacks[c]).session
    /\ Finished(store)
    /\ Len(store.players) = 2
    /\ store.settings.maxRounds = 1
    /\ store.round = 2

\* C5: checkAnswer changes no score and reports isCorrect = false whenever
\* the stored session is not playing or has no currentTopic.
C5_NoAwardUnlessPlaying ==
  [][\A c \in Coordinators, a \in Guesses :
       ((~Playing(store) \/ checkAnswerRejected(store)) /\ checkAnswer(c, a))
         => (store' = store /\ ~checkAnswerIsCorrect(store, a))]_vars

\* C6: no coordinator holds a pending turn timer that was started for a
\* session whose gameState is finished while the stored session is finished.
C6_NoTimerOnceFinished ==
  Finished(store) =>
    \A c \in Coordinators : timer[c] = Null \/ ~Finished(timer[c])

\* C7: the expiry of a turn timer whose turn (drawer, topic and turn number)
\* is no longer the one of the stored session changes nothing in the stored
\* session.
TurnOf(s) == <<s.currentDrawer, s.currentTopic, s.turn>>

TurnResolved(c) ==
  IF timer[c] = Null \/ store = Null
  THEN FALSE
  ELSE TurnOf(store) # TurnOf(timer[c])

C7_StaleTimeoutIsNoOp ==
  [][\A c \in Coordinators :
       (TurnResolved(c) /\ turnTimeout(c)) => store' = store]_vars

\* C8: the write of a checkAnswer with a correct guess replaces the stored
\* session by the snapshot it read plus its own award: the scores another
\* client stored since the read are gone. Two clients that read the same
\* snapshot both get isCorrect = true and the store keeps the later award
\* only.
ScoreAfterAward(s, i, guesser) ==
  s.players[i].score
    + (IF s.players[i].id = guesser THEN s.settings.correctAnswerPoints ELSE 0)
    + (IF s.players[i].id = s.currentDrawer THEN s.settings.drawerPoints ELSE 0)

WrittenBy(c) ==
  LET snap == pending[c].snap
  IN [snap EXCEPT !.players =
        [i \in 1..Len(snap.players) |->
           [snap.players[i] EXCEPT !.score = ScoreAfterAward(snap, i, c)]]]

C8_LaterWriteWins ==
  [][\A c \in Coordinators :
       IF pending[c].op = "checkAnswer"
       THEN (checkAnswerWrite(c)
               /\ checkAnswerIsCorrect(pending[c].snap, pending[c].arg))
              => store' = WrittenBy(c)
       ELSE TRUE]_vars

\* C8 witness: the host's timer still holds the snapshot of the turn; two
\* guessers were both told isCorrect = true on it (their nextTurn is
\* queued), and the store holds the second award without the first.
C8_Witness ==
  \E h \in Coordinators, c1 \in Coordinators, c2 \in Coordinators :
    /\ c1 # c2
    /\ timer[h] # Null
    /\ callbacks[c1] # <<>>
    /\ callbacks[c2] # <<>>
    /\ Head(callbacks[c1]) = [kind |-> "nextTurn", session |-> awardPoints(timer[h], c1)]
    /\ Head(callbacks[c2]) = [kind |-> "nextTurn", session |-> awardPoints(timer[h], c2)]
    /\ store = awardPoints(timer[h], c2)
    /\ Find(store, c1).score < Find(Head(callbacks[c1]).session, c1).score

\* C9: updateSettings changes the stored settings only for the host and only
\* while the session is not playing; any other call leaves the session as
\* it is.
C9_SettingsOnlyByHostOutsidePlay ==
  [][\A c \in Coordinators, p \in SettingsPatches :
       ((Playing(store) \/ ~updateSettingsAllowed(store, c)) /\ updateSettings(c, p))
         => store' = store]_vars

\* C10: in every reachable state usedDrawers holds only ids of players of
\* the roster, also after a player who has drawn left the session.
C10_UsedDrawersInRoster ==
  store # Null => store.usedDrawers \subseteq Ids(store)

\* C11: whenever the stored session has a non-empty roster, exactly one of
\* its players has isHost = TRUE, whatever the clients' handlers did and
\* however their reads and writes interleaved.
Hosts(s) == {i \in 1..Len(s.players) : s.players[i].isHost}

C11_ExactlyOneHost ==
  IF store = Null
  THEN TRUE
  ELSE Len(store.players) > 0 => Cardinality(Hosts(store)) = 1

\* C11 witness: the creator of the session has left and the host role is
\* with the player now first in the roster.
C11_Witness ==
  IF store = Null
  THEN FALSE
  ELSE /\ Len(store.players) > 0
       /\ 1 \notin Ids(store)
       /\ Hosts(store) = {1}

\* C12: the stored round never decreases in a step that is not a successful
\* startGame, whatever correct answers, timeouts and other operations occur.
RoundDrops ==
  IF store = Null \/ store' = Null
  THEN FALSE
  ELSE store'.round < store.round

C12_RoundNeverDecreases ==
  [][RoundDrops => \E c \in Coordinators : startGame(c)]_vars

\* C13: startGame succeeds exactly when the caller is the host, the roster
\* has at least two players and every player is ready: it then stores a
\* playing session in round 1 with a drawer and a topic and starts the
\* caller's turn timer; in every other case the stored session and the
\* timers stay as they are.
MayStart(s, c) ==
  IF s = Null
  THEN FALSE
  ELSE /\ \E i \in 1..Len(s.players) : s.players[i].id = c /\ s.players[i].isHost
       /\ Len(s.players) >= 2
       /\ \A i \in 1..Len(s.players) : s.players[i].isReady

Started(c, after, timers) ==
  IF after = Null
  THEN FALSE
  ELSE /\ after.gameState = "playing"
       /\ after.round = 1
       /\ after.turn = 1
       /\ after.currentDrawer \in Ids(after)
       /\ after.usedDrawers = {after.currentDrawer}
       /\ after.currentTopic # NoTopic
       /\ timers[c] = after

C13_StartGameIff ==
  [][\A c \in Coordinators :
       startGame(c) =>
         IF MayStart(store, c)
         THEN Started(c, store', timer')
         ELSE UNCHANGED <<store, timer>>]_vars

\* C13 witness: the host's startGame has just stored the first turn.
C13_Witness ==
  /\ Started(1, store, timer)
  /\ steps = 1
  /\ \A i \in 1..Len(store.players) : store.players[i].score = 0

\* C14: joinSession fails with the first error that applies, in the order
\* wrong password, game in progress, session full, name taken, and then
\* leaves the stored session as it is; when none applies it appends one
\* player with isHost = FALSE, isReady = FALSE and score 0 at the end of the
\* roster and changes nothing else.
JoinOutcome(s, playerName, password) ==
  CASE s = Null -> "notFound"
    [] OTHER ->
       CASE s.password # NoPassword /\ s.password # password -> "wrongPassword"
         [] OTHER ->
            CASE s.gameState = "playing" -> "gameInProgress"
              [] OTHER ->
                 CASE Len(s.players) >= s.settings.maxPlayers -> "sessionFull"
                   [] OTHER ->
                      CASE playerName \in {s.players[i].name : i \in 1..Len(s.players)}
                             -> "nameTaken"
                        [] OTHER -> "ok"

Joined(s, c, playerName) ==
  [s EXCEPT !.players =
     @ \o << [id |-> c, name |-> playerName, score |-> 0,
              isReady |-> FALSE, isHost |-> FALSE] >>]

JoinReports(s) ==
  \A n \in Names, pw \in Passwords :
    joinSessionError(s, n, pw) = JoinOutcome(s, n, pw)

C14_JoinErrorsInOrder ==
  /\ []JoinReports(store)
  /\ [][\A c \in Coordinators, n \in Names, pw \in Passwords :
          (store' # store /\ c \notin created /\ joinSession(c, n, pw))
            => /\ JoinOutcome(store, n, pw) = "ok"
               /\ store' = Joined(store, c, n)]_vars

\* C14 witness: a third player has joined a session that has a password; the
\* two players before are ready, the new one is last, not ready, not host.
C14_Witness ==
  IF store = Null
  THEN FALSE
  ELSE /\ store.password # NoPassword
       /\ steps = 1
       /\ Len(store.players) = 3
       /\ store.players[1].isReady /\ store.players[2].isReady
       /\ store.players[3] = [id |-> 3, name |-> NameOf(3), score |-> 0,
                              isReady |-> FALSE, isHost |-> FALSE]

\* C15: a correct answer while the session is playing adds
\* correctAnswerPoints to the guesser and drawerPoints to the current drawer
\* and changes nothing else in the stored session; an incorrect answer
\* changes nothing.
AwardedSession(s, guesser) ==
  [s EXCEPT !.players =
     [i \in 1..Len(s.players) |->
        [s.players[i] EXCEPT !.score = ScoreAfterAward(s, i, guesser)]]]

C15_CorrectAnswerFrame ==
  [][\A c \in Coordinators, a \in Guesses :
       (store' # store /\ Playing(store) /\ checkAnswer(c, a))
         => /\ checkAnswerIsCorrect(store, a)
            /\ store' = AwardedSession(store, c)]_vars

\* C15 witness: in a game of three the guesser holds correctAnswerPoints,
\* the drawer drawerPoints and the third player nothing.
C15_Witness ==
  \E c \in Coordinators :
    /\ Playing(store)
    /\ Len(store.players) = 3
    /\ c # store.currentDrawer
    /\ store.currentDrawer \in Ids(store)
    /\ callbacks[c] # <<>>
    /\ Head(callbacks[c]) = [kind |-> "nextTurn", session |-> store]
    /\ \A i \in 1..Len(store.players) :
         store.players[i].score =
           IF store.players[i].id = c THEN store.settings.correctAnswerPoints
           ELSE IF store.players[i].id = store.currentDrawer
                THEN store.settings.drawerPoints
                ELSE 0

\* C16: for every guess and every topic, checkAnswer reports a correct answer
\* exactly when the guess, trimmed and lower-cased, contains or is contained in
\* some accepted answer name normalized the same way (trimmed and lower-cased);
\* nothing else is converted, so a katakana guess is not a hiragana answer.
normalize(s) == trim(toLowerCase(s))

NormalizedContainment(topic, answer) ==
  \E k \in 1..Len(topic.answerNames) :
    \/ includes(normalize(topic.answerNames[k]), normalize(answer))
    \/ includes(normalize(answer), normalize(topic.answerNames[k]))

KatakanaRejected ==
  ~isCorrectAnswer([displayName |-> "Neko", answerNames |-> <<Str_hiragana>>],
                   <<" ">> \o Str_katakana \o <<" ">>)

C16_MatchIsNormalizedContainment ==
  /\ KatakanaRejected
  /\ ~checkAnswerRejected(store)
       => \A a \in MatchGuesses :
            checkAnswerIsCorrect(store, a)
              <=> NormalizedContainment(store.currentTopic, a)

\* C17: the drawer selection that ends the game stores gameState = finished
\* with every player not ready, so that startGame fails for every caller, and
\* keeps failing while any player of that roster is not ready.
WithReady(s, r) ==
  [s EXCEPT !.players = [i \in 1..Len(s.players) |->
                           [s.players[i] EXCEPT !.isReady = r[i]]]]

EndedUnready(after) ==
  IF after = Null
  THEN FALSE
  ELSE /\ after.gameState = "finished"
       /\ \A i \in 1..Len(after.players) : ~after.players[i].isReady
       /\ \A h \in Coordinators : ~startGameAllowed(after, h)
       /\ \A r \in [1..Len(after.players) -> BOOLEAN], h \in Coordinators :
            (\E i \in 1..Len(after.players) : ~r[i])
              => ~startGameAllowed(WithReady(after, r), h)

C17_EndGameResetsReadiness ==
  [][\A c \in Coordinators :
       /\ (RoundsExhausted(timer[c]) /\ turnTimeout(c)) => EndedUnready(store')
       /\ (RoundsExhausted(HeadSession(c)) /\ nextTurnDelayed(c))
            => EndedUnready(store')]_vars

\* C17 witness: a game has just been ended; nobody is ready and no caller
\* may start a game.
C17_Witness ==
  /\ EndedUnready(store)
  /\ \E c \in Coordinators :
       /\ callbacks[c] # <<>>
       /\ Head(callbacks[c]) = [kind |-> "afterEndGame", session |-> store]

\* C18: leaveSession of a player of a roster of two or more removes that
\* player only, keeps the others in their order with their scores and
\* readiness, makes the first remaining player host when the host left, and
\* changes nothing else in the session.
RosterWithout(s, playerId) ==
  LET Stays(p) == p.id # playerId
      rest == SelectSeq(s.players, Stays)
  IN IF Find(s, playerId).isHost
     THEN [i \in 1..Len(rest) |->
             IF i = 1 THEN [rest[i] EXCEPT !.isHost = TRUE] ELSE rest[i]]
     ELSE rest

LeavesRosterOfSeveral(c) ==
  IF store = Null
  THEN FALSE
  ELSE c \in Ids(store) /\ Len(store.players) > 1

C18_LeaveRemovesOnlyLeaver ==
  [][\A c \in Coordinators :
       (LeavesRosterOfSeveral(c) /\ leaveSession(c))
         => store' = [store EXCEPT !.players = RosterWithout(store, c)]]_vars

\* C18 witness: the host left a session of three players; the second player
\* is host, the third is not.
C18_Witness ==
  IF store = Null
  THEN FALSE
  ELSE /\ Len(store.players) = 2
       /\ store.players[1].id = 2
       /\ store.players[1].isHost
       /\ store.players[2].id = 3
       /\ ~store.players[2].isHost
       /\ created = {1, 2, 3}

\* C19: leaveSession for an id that is not in the roster (already removed,
\* never joined, or the session deleted) writes nothing: the store, the
\* timers and the queued callbacks stay as they are.
NotInRoster(c) == IF store = Null THEN TRUE ELSE c \notin Ids(store)

C19_SecondLeaveIsNoOp ==
  [][\A c \in Coordinators :
       (NotInRoster(c) /\ leaveSession(c))
         => UNCHANGED <<store, created, timer, callbacks>>]_vars

\* C19 witness: a player who had joined is gone from a session that still
\* exists, so a second leaveSession of that player finds no such player.
C19_Witness ==
  IF store = Null
  THEN FALSE
  ELSE \E c \in created : c \notin Ids(store) /\ Len(store.players) > 0

\* C20: the store never holds a session whose roster is empty.
C20_NoEmptySession ==
  IF store = Null THEN TRUE ELSE Len(store.players) > 0

\* C20 witness: the last player has left and the session record is deleted.
C20_Witness == store = Null /\ steps > 0


\* C21: in every stored session no two players of the roster have the same
\* name (names compared as they are, case included), also when two clients
\* join with the same name from the same snapshot of the session.
NamesDistinct(s) ==
  \A i, j \in 1..Len(s.players) :
    s.players[i].name = s.players[j].name => i = j

C21_NamesUnique == store # Null => NamesDistinct(store)

HasName(s, n) ==
  IF s = Null THEN FALSE ELSE \E i \in 1..Len(s.players) : s.players[i].name = n

\* C21 witness: two clients read the same session to join under the same
\* name; one has written its join, the other is about to write its own.
C21_Witness ==
  \E c, d \in Coordinators :
    /\ c # d
    /\ pending[d].op = "joinSession"
    /\ joinSessionError(pending[d].snap, pending[d].arg[1], pending[d].arg[2]) = "ok"
    /\ store # Null
    /\ c \in Ids(store)
    /\ c \notin Ids(pending[d].snap)
    /\ Find(store, c).name = pending[d].arg[1]

\* C22: a coordinator never has more than one turn timeout pending for the
\* session, and the pending one is the entry of its turnTimers:
\* startTurnTimer clears the registered timeout before it registers the next.
Registered(c) ==
  IF timer[c] = Null THEN EmptyBag ELSE SetToBag({timer[c]})

C22_OneTimerPerCoordinator ==
  \A c \in Coordinators :
    /\ BagCardinality(timeouts[c]) <= 1
    /\ timeouts[c] = Registered(c)

\* C22 witness: a coordinator's timer was started for a second turn, over the
\* timer of the first, and is the only one pending.
C22_Witness ==
  \E c \in Coordinators :
    /\ timer[c] # Null
    /\ Cardinality(timer[c].usedDrawers) >= 2
    /\ BagCardinality(timeouts[c]) = 1

\* C23: a subscribed client's local view converges to the store: once every
\* notification has been delivered to it and none of its operations, delayed
\* callbacks or timers is pending, its view is the session stored.
Quiet(c) ==
  /\ inbox[c] = <<>>
  /\ pending[c] = None
  /\ callbacks[c] = <<>>
  /\ timeouts[c] = EmptyBag

C23_ViewConvergesToStore ==
  \A c \in Coordinators :
    (gameState[c].isConnected /\ listeners[c] > 0 /\ Quiet(c))
      => gameState[c].session = store

\* C28: once the local player has left through the GameApp, the client has no
\* listener on the session left and no notification is on its way to it.
C28_LeaveReleasesSubscription ==
  \A c \in Coordinators :
    ~gameState[c].isConnected => listeners[c] = 0 /\ inbox[c] = <<>>

\* C28 witness: a client that had subscribed has left, and the session was
\* written by the others after that.
C28_Witness ==
  \E c \in Coordinators :
    /\ c \in created
    /\ ~gameState[c].isConnected
    /\ pending[c] = None
    /\ store # Null
    /\ c \notin Ids(store)
    /\ \E d \in Coordinators : d # c /\ inbox[d] # <<>> /\ inbox[d][Len(inbox[d])] = store

\* C24: when the remote write of a mutating operation failed because the
\* store was unavailable, the operation was reported to its caller as failed.
C24_UnavailableStoreReportsFailure ==
  \A c \in Coordinators :
    IF lastResult[c] = None
    THEN TRUE
    ELSE ~(lastResult[c].remoteWriteFailed /\ lastResult[c].success)

\* the write of client c went to the local fallback during the outage that
\* still lasts, less than 24 hours ago
WrittenInOutage(c) ==
  IF lastResult[c] = None
  THEN FALSE
  ELSE /\ lastResult[c].remoteWriteFailed
       /\ ~online
       /\ offlineSince < lastResult[c].at
       /\ now - lastResult[c].at < SESSION_EXPIRY

\* C25: while the store stays unavailable, getSession returns the session
\* that saveSession wrote to the local fallback less than 24 hours before.
C25_FallbackKeepsSession ==
  \A c \in Coordinators :
    WrittenInOutage(c) => FirebaseGetSessionResult(c) = lastResult[c].session

C25_Witness ==
  \E c \in Coordinators :
    /\ WrittenInOutage(c)
    /\ now > lastResult[c].at
    /\ FirebaseGetSessionResult(c) = lastResult[c].session
    /\ FirebaseGetSessionResult(c).password = NoPassword

\* what both calls of a store report of a session written `elapsed` hours ago
ExpiryRule(elapsed, got, listed) ==
  /\ elapsed >= SESSION_EXPIRY => ~got /\ ~listed
  /\ elapsed < SESSION_EXPIRY => got /\ listed
  /\ got <=> listed

\* C26: in every store implementation a session is reported by getSession
\* and by getSessionIds while less than 24 hours have passed since its last
\* write, by neither of them from 24 hours on, and the two never disagree.
C26_ExpiresAfter24Hours ==
  /\ online /\ store # Null =>
       \A c \in Coordinators :
         ExpiryRule(now - savedAt, FirebaseGetSessionResult(c) # Null,
                    FirebaseGetSessionIds(c))
  /\ simple # Null =>
       ExpiryRule(now - simple.lastActivity, SimpleGetSessionResult # Null,
                  SimpleGetSessionIds)

\* the Firebase store alone keeps the rule
C26_FirebaseExpiresAfter24Hours ==
  online /\ store # Null =>
    \A c \in Coordinators :
      ExpiryRule(now - savedAt, FirebaseGetSessionResult(c) # Null,
                 FirebaseGetSessionIds(c))

\* the log holds the last ChatCap messages appended, in append order
LastAppended(log) ==
  /\ Len(log) <= ChatCap
  /\ \A i \in 1..Len(log) : log[i] = NextMessage(log) - 1 - Len(log) + i
  /\ Len(log) < ChatCap => NextMessage(log) - 1 = Len(log)

\* C27: after any sequence of addChatMessage calls the stored message log
\* holds at most 100 entries, the most recently appended ones in their order.
C27_ChatLogCapped ==
  /\ LastAppended(chatMessages.simple)
  /\ LastAppended(chatMessages.firebase)

\* the log of SimpleSessionManager alone is capped
C27_SimpleChatLogCapped == LastAppended(chatMessages.simple)

\* a step of a running game that stores a newly selected drawer (nextTurn
\* saved the session and started the turn timer on it) and is no startGame,
\* round and roster staying as they are
DrawerSelectedInRound ==
  IF store = Null \/ store' = Null
  THEN FALSE
  ELSE /\ store' # store
       /\ store.gameState = "playing"
       /\ store'.gameState = "playing"
       /\ store'.round = store.round
       /\ Ids(store') = Ids(store)
       /\ \E c \in Coordinators : timer'[c] = store' /\ timer'[c] # timer[c]
       /\ ~\E c \in Coordinators : startGame(c)

\* C29: within one round of a game with an unchanging roster no player is
\* selected as drawer twice: every selection stores a drawer who was not in
\* the stored usedDrawers, and adds that drawer to them.
C29_NoDrawerTwicePerRound ==
  [][DrawerSelectedInRound =>
       /\ store'.currentDrawer \notin store.usedDrawers
       /\ store'.usedDrawers = store.usedDrawers \cup {store'.currentDrawer}]_vars

\* the continuations setTimeout(() => nextTurn(session), 2000) that correct
\* answers have queued and that have not run yet, as <<coordinator, position>>
QueuedNextTurns ==
  {q \in Coordinators \X (1..MaxCallbacks + 1) :
     IF q[2] \in DOMAIN callbacks[q[1]]
     THEN callbacks[q[1]][q[2]].kind = "nextTurn"
     ELSE FALSE}

QueuedSession(q) == callbacks[q[1]][q[2]].session

\* two sessions are in the same turn: same round, drawer and drawers used
SameTurn(a, b) ==
  /\ a.gameState = "playing"
  /\ b.gameState = "playing"
  /\ a.round = b.round
  /\ a.currentDrawer = b.currentDrawer
  /\ a.usedDrawers = b.usedDrawers
  /\ a.currentTopic = b.currentTopic

\* C30: a turn is resolved at most once: while the turn advance of a correct
\* answer is waiting, no second correct answer is scored for the same turn
\* and no second nextTurn is queued for it.
C30_TurnResolvedOnce ==
  \A q, r \in QueuedNextTurns :
    SameTurn(QueuedSession(q), QueuedSession(r)) => q = r

\* a player of both rosters has a lower stored score after the step
ScoreDrops ==
  IF store = Null \/ store' = Null
  THEN FALSE
  ELSE \E id \in Ids(store) \cap Ids(store') :
         Find(store', id).score < Find(store, id).score

\* C31: no player's stored score decreases in a step that is not a
\* successful startGame: the points of a correct answer are not undone by a
\* delayed nextTurn or by a turn timer of any client.
C31_ScoresNeverDecrease ==
  [][ScoreDrops => \E c \in Coordinators : startGame(c)]_vars

\* C32: a chat message of the stored log stays in the log until the cap of
\* 100 entries displaces it: the message of a correct answer and those sent
\* before the turn advance are still stored once nextTurn has written.
C32_ChatMessagesKept ==
  [][\A i \in 1..Len(chatMessages.simple) :
       \/ Len(chatMessages'.simple) = ChatCap
       \/ \E j \in 1..Len(chatMessages'.simple) :
            chatMessages'.simple[j] = chatMessages.simple[i]]_vars

\* a player who is not in the stored roster is in it after the step
Reappears ==
  IF store = Null \/ store' = Null
  THEN FALSE
  ELSE Ids(store') \ Ids(store) # {}

\* C33: a player removed from the stored roster by leaveSession comes back
\* into it only through a joinSession: no turn timeout and no delayed
\* nextTurn puts a removed player back.
C33_RemovedPlayerStaysOut ==
  [][Reappears => \E c \in Coordinators, n \in Names, pw \in Passwords :
                    joinSession(c, n, pw)]_vars

\* C34: once the session record is deleted it stays absent until a client
\* creates a session: no pending turn timer and no delayed nextTurn writes
\* the session back into the store.
C34_DeletedSessionStaysAbsent ==
  [][store = Null =>
       \/ store' = Null
       \/ \E c \in Coordinators : createSession(c)]_vars

\* C35: a startGame while the stored session is playing fails: it leaves
\* round, turn, usedDrawers, currentDrawer and currentTopic of the running
\* game, and the rest of the stored session, as they are.
C35_NoStartWhilePlaying ==
  [][\A c \in Coordinators :
       (Playing(store) /\ startGame(c)) => store' = store]_vars

\* C36: a message of the player who is the stored currentDrawer when
\* checkAnswer evaluates it is never scored: the stored session stays as it
\* is.
C36_DrawerNeverScored ==
  [][\A c \in Coordinators :
       (/\ Playing(store)
        /\ store.currentDrawer = c
        /\ addChatMessageCheck(c)) => store' = store]_vars

\* the drawer, topic, drawers used and round of a stored session
TurnState(s) == <<s.currentDrawer, s.currentTopic, s.usedDrawers, s.round>>

\* C37: once the stored game is finished, its currentDrawer, currentTopic,
\* usedDrawers and round stay as they are until a startGame succeeds: no
\* nextTurn and no turn timeout acts on the finished game.
C37_FinishedGameStaysPut ==
  [][Finished(store) =>
       \/ IF store' = Null THEN TRUE ELSE TurnState(store') = TurnState(store)
       \/ \E c \in Coordinators : startGame(c)]_vars

\* a step of a running game in which nextTurn stored a new drawer and topic
\* assignment and started the turn timer on it
TurnAssigned ==
  IF store = Null \/ store' = Null
  THEN FALSE
  ELSE /\ store' # store
       /\ store.gameState = "playing"
       /\ store'.gameState = "playing"
       /\ \E c \in Coordinators : timer'[c] = store' /\ timer'[c] # timer[c]
       /\ ~\E c \in Coordinators : startGame(c)

\* a step in which startGame stored a game
GameStarted ==
  /\ store' # store
  /\ \E c \in Coordinators : startGame(c)

\* C38: the stored turn counts the turns of the game: startGame stores
\* turn 1 and every later assignment of a drawer and topic stores the turn
\* of the session before plus one.
C38_TurnCountsAssignments ==
  [][/\ GameStarted => store'.turn = 1
     /\ TurnAssigned => store'.turn = store.turn + 1]_vars

\* startGame alone does store turn 1
C38_StartStoresTurnOne == [][GameStarted => store'.turn = 1]_vars

\* C39: a client that is not connected to a session (it has left through
\* the GameApp, or has not joined yet) has no local session view: nothing
\* that belongs to the session left, the playerLeft event of its own leave
\* included, sets the view again.
C39_NoViewAfterLeave ==
  \A c \in Coordinators :
    ~gameState[c].isConnected => gameState[c].session = Null

\* C40: a guess that is empty once trimmed is never judged correct: for
\* every topic, checkAnswer with such a guess awards no points and queues no
\* turn advance; the stored session, the timers and the callbacks stay as
\* they are.
C40_BlankGuessNeverCorrect ==
  [][\A c \in Coordinators, a \in BlankGuesses :
       checkAnswer(c, a) =>
         UNCHANGED <<store, timer, timeouts, callbacks>>]_vars
====
